---- MODULE Spec2Model ----
(***************************************************************************)
(* A model of two components of maro:                                      *)
(*   - ActorManager (maro/rl/distributed/actor_manager.py): the learner    *)
(*     side coordinator whose collect() generator broadcasts a roll-out    *)
(*     request and filters the result messages of the remote actors;       *)
(*   - SimpleStore (maro/rl/storage/simple_store.py): the dictionary of    *)
(*     lists used as experience storage.                                   *)
(* The two components share no state; Spec is the coordinator, LiveSpec   *)
(* is the coordinator with a caller that iterates every generator to its   *)
(* end, StoreSpec is the store, StoreCallSpec is the store with the        *)
(* arguments of each call in the state, and PutSeqSpec is the store under  *)
(* put() and clear() with the history of the puts.                         *)
(***************************************************************************)
EXTENDS Integers, Sequences, FiniteSets, Bags, TLC

(***************************************************************************)
(* Bounds of the model.                                                    *)
(***************************************************************************)
\* number of remote actors in the group (constructor argument num_actors)
NumActors == 2
\* messages the actors deliver to the coordinator's inbox in one behaviour
MaxDeliver == 2
\* collect() calls in one behaviour
MaxSessions == 2
\* exit() calls between two collect() calls
MaxExits == 1
\* largest capacity of a bounded store
MaxCap == 2
\* largest number of entries an unbounded store is grown to
MaxSize == 2
\* longest list in the contents of one put() or update(), and longest index list
MaxBatch == 2

None == "None"

\* values of rollout_index and segment_index, in requests and in messages
Indexes == {1, 2}
\* required_actor_finishes as passed by the caller: <<n>>, or <<>> for None (omitted)
RequiredArgs == {<<>>, <<0>>, <<1>>}
\* what one actor reports: <<NUM_EXPERIENCES, NUM_STEPS, ENV_END, TOTAL_REWARD>>
Profiles == {<<1, 2, TRUE, 5>>, <<2, 1, FALSE, 0>>}

VARIABLES
    \* ---- ActorManager fields
    total_experiences_collected,  \* self.total_experiences_collected
    total_env_steps,              \* self.total_env_steps
    total_reward,                 \* self.total_reward, a defaultdict(float)
    \* ---- the transport (Proxy)
    inbox,                        \* messages that proxy.receive() will yield, in order
    sent,                         \* the bag of messages ibroadcast() has sent to the actors
                                  \* since the last collect() call
    \* ---- the collect() generator: its position, arguments and locals
    pc,                           \* "idle" | "start" | "recv" | "yield" | "done"
    rollout_index,
    segment_index,
    required_arg,                 \* required_actor_finishes as passed
    required_actor_finishes,      \* the local after lines 58-59
    discard_stale_experiences,
    num_finishes,
    msg,                          \* the loop variable of "for msg in receive()", kept
                                  \* while the generator is suspended at the yield (it
                                  \* is read again by lines 103-106 only)
    \* ---- history of the run (not program state)
    nReceived,                    \* messages this session's receive() has returned
    nMatched,                     \* those of them with the requested rollout and segment
    yielded,                      \* what this session has yielded to its caller, in order
    accepted,                     \* the messages those yields came from, in order
    exp0,                         \* total_experiences_collected when the session began
    steps0,                       \* total_env_steps when the session began
    leftover,                     \* EXPERIENCES of the messages an ended round left unread
    nSessions,                    \* collect() calls so far
    nDelivered,                   \* messages delivered so far
    \* ---- SimpleStore fields
    keys,                         \* self.keys
    capacity,                     \* self._capacity
    overwrite_type,               \* self._overwrite_type
    data,                         \* self.data: key -> list
    size,                         \* self._size
    ret,                          \* the last store call: what it returned or raised
    \* ---- the caller of the store and the history of its calls (not store state)
    call,                         \* the call the caller is making, with its arguments,
                                  \* and afterwards the method that returned
    putSum,                       \* sizes of the successful put() calls since __init__
                                  \* or the last clear(), added up (up to PutSumCap)
    writeOrder,                   \* the positions put() has written, the earliest
                                  \* written first, while plainPuts holds
    plainPuts                     \* no put() since __init__ or the last clear() was
                                  \* given overwrite_indexes

amVars == <<total_experiences_collected, total_env_steps, total_reward, inbox, sent,
            pc, rollout_index, segment_index, required_arg, required_actor_finishes,
            discard_stale_experiences, num_finishes, msg>>
histVars == <<nReceived, nMatched, yielded, accepted, exp0, steps0, leftover, nSessions, nDelivered>>
storeVars == <<keys, capacity, overwrite_type, data, size, ret>>
traceVars == <<call, putSum, writeOrder, plainPuts>>
vars == <<amVars, histVars, storeVars, traceVars>>

(***************************************************************************)
(* Helpers.                                                                *)
(***************************************************************************)
RECURSIVE SumOver(_, _)
\* the sum of field f over the records of sequence s
SumOver(s, f) == IF s = <<>> THEN 0 ELSE Head(s)[f] + SumOver(Tail(s), f)

IsPrefix(s, t) == Len(s) <= Len(t) /\ SubSeq(t, 1, Len(s)) = s

NoMsg == [rollout |-> 0, segment |-> 0, numExperiences |-> 0, numSteps |-> 0,
          envEnd |-> FALSE, totalReward |-> 0, experiences |-> 0]

\* a ROLLOUT_DONE message of an actor; its EXPERIENCES payload is identified by id
ResultMsg(r, s, p, id) ==
    [rollout |-> r, segment |-> s, numExperiences |-> p[1], numSteps |-> p[2],
     envEnd |-> p[3], totalReward |-> p[4], experiences |-> id]

(***************************************************************************)
(* ActorManager.collect, its conditions.                                   *)
(***************************************************************************)
\* mutant of DefaultRequired: an omitted argument means one finish
DefaultRequiredOne(arg) == IF arg = <<>> THEN 1 ELSE arg[1]

\* lines 58-59: required_actor_finishes defaults to the number of actors
DefaultRequired(arg) == IF arg = <<>> THEN NumActors ELSE arg[1]

\* mutant of RolloutMatches: the check of line 83 is missing
RolloutMatchesAlways(m) == TRUE

\* line 83 (negated): the message belongs to the requested roll-out
RolloutMatches(m) == m.rollout = rollout_index

\* mutant of Accepts: discard_stale_experiences is ignored
AcceptsAlways(m) == TRUE

\* line 95: the message's experiences are used
Accepts(m) == m.segment = segment_index \/ ~discard_stale_experiences

\* mutant of CountsAsFinish: no message counts
CountsAsFinishNever(m) == FALSE

\* mutant of CountsAsFinish: every message of the roll-out counts
CountsAsFinishAny(m) == TRUE

\* line 103: the message counts as a finish
CountsAsFinish(m) == m.segment = segment_index

\* mutant of QuorumReached: one finish too many is awaited
QuorumReachedLate(n) == n = required_actor_finishes + 1

\* line 105: the loop ends
QuorumReached(n) == n = required_actor_finishes

\* lines 103-106 for message m: the next position and the finish count
QuorumCheck(m) ==
    IF CountsAsFinish(m)
    THEN /\ num_finishes' = num_finishes + 1
         /\ pc' = IF QuorumReached(num_finishes + 1) THEN "done" ELSE "recv"
    ELSE /\ num_finishes' = num_finishes
         /\ pc' = "recv"

\* mutant of AddExperiences: = written for +=
AddExperiencesAssign(m) == m.numExperiences

\* mutant of AddSteps: NUM_EXPERIENCES added where NUM_STEPS is meant
AddStepsWrongKey(m) == total_env_steps + m.numExperiences

\* lines 96-97: the cumulative counters after accepting m
AddExperiences(m) == total_experiences_collected + m.numExperiences
AddSteps(m) == total_env_steps + m.numSteps

\* messages of the current request among a set of messages of the inbox
MatchesRequest(m) == m.rollout = rollout_index /\ m.segment = segment_index
UnreadOfRound == {inbox[i].experiences : i \in {j \in 1..Len(inbox) : MatchesRequest(inbox[j])}}

\* line 77: the MsgTag.ROLLOUT broadcast (of its body, the two indexes)
RolloutRequest == [tag |-> "ROLLOUT", rollout |-> rollout_index, segment |-> segment_index]

\* line 110: the MsgTag.EXIT broadcast
ExitNotice == [tag |-> "EXIT", rollout |-> 0, segment |-> 0]

(***************************************************************************)
(* ActorManager: the actions.                                              *)
(***************************************************************************)
\* __init__, lines 40-42
AMInit ==
    /\ total_experiences_collected = 0
    /\ total_env_steps = 0
    /\ total_reward = <<>>
    /\ inbox = <<>>
    /\ sent = EmptyBag
    /\ pc = "idle"
    /\ rollout_index = 0
    /\ segment_index = 0
    /\ required_arg = <<>>
    /\ required_actor_finishes = 0
    /\ discard_stale_experiences = TRUE
    /\ num_finishes = 0
    /\ msg = NoMsg
    /\ nReceived = 0
    /\ nMatched = 0
    /\ yielded = <<>>
    /\ accepted = <<>>
    /\ exp0 = 0
    /\ steps0 = 0
    /\ leftover = {}
    /\ nSessions = 0
    /\ nDelivered = 0

\* the caller calls collect(...): a generator is created, none of its body runs yet
CollectCall(r, s, req, ds) ==
    /\ pc \in {"idle", "done"}
    /\ nSessions < MaxSessions
    /\ pc' = "start"
    /\ rollout_index' = r
    /\ segment_index' = s
    /\ required_arg' = req
    /\ discard_stale_experiences' = ds
    /\ nReceived' = 0
    /\ nMatched' = 0
    /\ yielded' = <<>>
    /\ accepted' = <<>>
    /\ exp0' = total_experiences_collected
    /\ steps0' = total_env_steps
    /\ nSessions' = nSessions + 1
    \* a new generator has a new frame: the locals of the previous one are gone
    /\ required_actor_finishes' = 0
    /\ num_finishes' = 0
    /\ msg' = NoMsg
    /\ sent' = EmptyBag
    /\ UNCHANGED <<total_experiences_collected, total_env_steps, total_reward, inbox,
                   leftover, nDelivered>>

\* the first next(): lines 58-81, up to the first receive
Begin ==
    /\ pc = "start"
    /\ required_actor_finishes' = DefaultRequired(required_arg)
    /\ sent' = sent (+) SetToBag({RolloutRequest})
    /\ num_finishes' = 0
    /\ pc' = "recv"
    /\ UNCHANGED <<total_experiences_collected, total_env_steps, total_reward, inbox,
                   rollout_index, segment_index, required_arg, discard_stale_experiences,
                   msg>>
    /\ UNCHANGED histVars

\* one turn of the loop of line 82, from receive() to the yield or to the loop's end
Receive ==
    /\ pc = "recv"
    /\ inbox # <<>>
    /\ LET m == Head(inbox) IN
        /\ inbox' = Tail(inbox)
        /\ nReceived' = nReceived + 1
        /\ nMatched' = IF MatchesRequest(m) THEN nMatched + 1 ELSE nMatched
        /\ IF ~RolloutMatches(m)
           THEN \* lines 83-88: continue
                /\ pc' = "recv"
                /\ UNCHANGED <<total_experiences_collected, total_env_steps, num_finishes,
                               yielded, accepted, leftover>>
           ELSE IF Accepts(m)
           THEN \* lines 95-101: the generator is suspended at the yield
                /\ total_experiences_collected' = AddExperiences(m)
                /\ total_env_steps' = AddSteps(m)
                /\ yielded' = Append(yielded, <<m.experiences, m.envEnd>>)
                /\ accepted' = Append(accepted, m)
                /\ pc' = "yield"
                /\ UNCHANGED <<num_finishes, leftover>>
           ELSE \* lines 103-106
                /\ QuorumCheck(m)
                /\ leftover' = IF pc' = "done" THEN leftover \cup UnreadOfRound' ELSE leftover
                /\ UNCHANGED <<total_experiences_collected, total_env_steps, yielded,
                               accepted>>
        /\ msg' = IF pc' = "yield" THEN m ELSE NoMsg
    /\ UNCHANGED <<total_reward, sent, rollout_index, segment_index, required_arg,
                   required_actor_finishes, discard_stale_experiences>>
    /\ UNCHANGED <<exp0, steps0, nSessions, nDelivered>>

\* mutant of Resume: the request is broadcast again when the generator is resumed
ResumeRebroadcasts ==
    /\ pc = "yield"
    /\ QuorumCheck(msg)
    /\ msg' = NoMsg
    /\ sent' = sent (+) SetToBag({RolloutRequest})
    /\ leftover' = IF pc' = "done" THEN leftover \cup UnreadOfRound ELSE leftover
    /\ UNCHANGED <<total_experiences_collected, total_env_steps, total_reward, inbox,
                   rollout_index, segment_index, required_arg, required_actor_finishes,
                   discard_stale_experiences>>
    /\ UNCHANGED <<nReceived, nMatched, yielded, accepted, exp0, steps0, nSessions, nDelivered>>

\* next() on the generator suspended at the yield: lines 103-106
Resume ==
    /\ pc = "yield"
    /\ QuorumCheck(msg)
    /\ msg' = NoMsg
    /\ leftover' = IF pc' = "done" THEN leftover \cup UnreadOfRound ELSE leftover
    /\ UNCHANGED <<total_experiences_collected, total_env_steps, total_reward, inbox, sent,
                   rollout_index, segment_index, required_arg, required_actor_finishes,
                   discard_stale_experiences>>
    /\ UNCHANGED <<nReceived, nMatched, yielded, accepted, exp0, steps0, nSessions, nDelivered>>

\* the caller stops iterating and drops the generator
Abandon ==
    /\ pc \in {"start", "yield"}
    /\ pc' = "idle"
    \* a generator dropped before its first next() has requested nothing
    /\ leftover' = IF pc = "yield" THEN leftover \cup UnreadOfRound ELSE leftover
    /\ UNCHANGED <<total_experiences_collected, total_env_steps, total_reward, inbox, sent,
                   rollout_index, segment_index, required_arg, required_actor_finishes,
                   discard_stale_experiences, num_finishes, msg>>
    /\ UNCHANGED <<nReceived, nMatched, yielded, accepted, exp0, steps0, nSessions, nDelivered>>

\* exit(), lines 108-111; the caller is not inside next()
Exit ==
    /\ pc # "recv"
    /\ CopiesIn(ExitNotice, sent) < MaxExits
    /\ sent' = sent (+) SetToBag({ExitNotice})
    /\ UNCHANGED <<total_experiences_collected, total_env_steps, total_reward, inbox,
                   pc, rollout_index, segment_index, required_arg, required_actor_finishes,
                   discard_stale_experiences, num_finishes, msg>>
    /\ UNCHANGED <<nReceived, nMatched, yielded, accepted, exp0, steps0, leftover, nSessions, nDelivered>>

\* an actor's result message arrives at the coordinator
Deliver(r, s, p) ==
    /\ nDelivered < MaxDeliver
    /\ nDelivered' = nDelivered + 1
    /\ inbox' = Append(inbox, ResultMsg(r, s, p, nDelivered + 1))
    /\ UNCHANGED <<total_experiences_collected, total_env_steps, total_reward, sent,
                   pc, rollout_index, segment_index, required_arg, required_actor_finishes,
                   discard_stale_experiences, num_finishes, msg>>
    /\ UNCHANGED <<nReceived, nMatched, yielded, accepted, exp0, steps0, leftover, nSessions>>

(***************************************************************************)
(* SimpleStore.  A list is a sequence; the Python position p of a list is  *)
(* the position p + 1 of the sequence.  The contents argument, a dict, is  *)
(* a sequence of [key, val] records in the dict's iteration order.         *)
(***************************************************************************)
\* the None of an unused slot of a bounded store (lines 40 and 120)
Empty == 0

\* the values a caller stores; those of key "b" are 10 more, those of key "c"
\* 20 more, so that the columns differ
Values == 1..MaxBatch
KeyOffset(k) == CASE k = "a" -> 0 [] k = "b" -> 10 [] OTHER -> 20

\* the keys the store is built with
StoreKeys == <<"a", "b">>

\* mutant of ListRange: the end of the range is included
ListRangeInclusive(a, b) == [i \in 1..(IF b >= a THEN b - a + 1 ELSE 0) |-> a + i - 1]

\* list(range(a, b))
ListRange(a, b) == [i \in 1..(IF b > a THEN b - a ELSE 0) |-> a + i - 1]

SeqRange(q) == {q[i] : i \in 1..Len(q)}

\* sequences over S of length at most n
RECURSIVE SeqsUpTo(_, _)
SeqsUpTo(S, n) ==
    IF n = 0 THEN {<<>>}
    ELSE LET shorter == SeqsUpTo(S, n - 1)
         IN shorter \cup {Append(q, x) : q \in {t \in shorter : Len(t) = n - 1}, x \in S}

\* what a store call returned (kind "ok", with the indexes) or raised
Returned(ix) == [kind |-> "ok", indexes |-> ix]
Raised(e) == [kind |-> e, indexes |-> <<>>]

\* lines 40 and 120: the columns of an empty store
NewColumns(ks, cap) ==
    [k \in SeqRange(ks) |-> IF cap = -1 THEN <<>> ELSE [i \in 1..cap |-> Empty]]

\* line 35: the overwrite types __init__ accepts
ValidOverwriteType(ot) == ot \in {"rolling", "random"}

\* mutant of Validate: the lengths of the lists are not compared
ValidateNoLengths(contents) == IF contents = <<>> THEN "IndexError" ELSE "ok"

\* lines 156-161, validate(); every value of the contents of the model is a list
Validate(contents) ==
    IF contents = <<>> THEN "IndexError"
    ELSE IF \E i \in 1..Len(contents) : Len(contents[i].val) # Len(contents[1].val)
         THEN "StoreMisalignment"
         ELSE "ok"

\* line 84: the StoreMisalignment of put() whose message is "expected keys ..., got
\* ..."; the one of validate() (line 161) is "StoreMisalignment"
KeysMisaligned == "StoreMisalignment: expected keys"

\* mutant of KeysAgree: the keys are not compared
KeysAgreeAlways(contents) == TRUE

\* lines 81-84 of put(): the keys of the contents are those of the store
KeysAgree(contents) ==
    Cardinality(DOMAIN data) > 0 =>
        DOMAIN data = {contents[i].key : i \in 1..Len(contents)}

\* mutant of RandomChoice: the sample is drawn with replacement
RandomChoiceRepeats(n, k) == {q \in SeqsUpTo(0..(n - 1), k) : Len(q) = k}

\* line 148: what np.random.choice(n, size=k, replace=False) may return
RandomChoice(n, k) ==
    {q \in SeqsUpTo(0..(n - 1), k) : Len(q) = k /\ Cardinality(SeqRange(q)) = k}

\* lines 131-151, _get_update_indexes(): the lists it may return, or the error it
\* raises; overwrite_indexes is <<>> for None and <<list>> for a list
GetUpdateIndexes(added_size, overwrite_indexes) ==
    IF added_size > capacity THEN {Raised("ValueError")}
    ELSE LET num_overwrites == size + added_size - capacity IN
         IF num_overwrites < 0
         THEN {Returned(ListRange(size, size + added_size))}
         ELSE IF overwrite_indexes # <<>>
         THEN {Returned(ListRange(size, capacity) \o overwrite_indexes[1])}
         ELSE IF overwrite_type = "rolling"
         THEN LET start_index == size - capacity
              IN {Returned(ListRange(start_index, start_index + added_size))}
         ELSE {Returned(ListRange(size, capacity) \o q) :
                    q \in RandomChoice(size, num_overwrites)}

\* whether lst[index] = value is accepted by a list of length n (negative indexes
\* count from the end)
IndexOK(index, n) == -n <= index /\ index < n
\* mutant of Position: indexes count from the end of the list
PositionFromEnd(index, n) == IF index < 0 THEN -index ELSE n - index
Position(index, n) == IF index < 0 THEN n + index + 1 ELSE index + 1

\* line 113-114 for one key: the assignments of zip(indexes, val) in order, up to
\* the first index out of range
RECURSIVE WriteColumn(_, _, _)
WriteColumn(col, indexes, val) ==
    IF indexes = <<>> \/ val = <<>> THEN [col |-> col, kind |-> "ok"]
    ELSE IF ~IndexOK(Head(indexes), Len(col)) THEN [col |-> col, kind |-> "IndexError"]
    ELSE WriteColumn([col EXCEPT ![Position(Head(indexes), Len(col))] = Head(val)],
                     Tail(indexes), Tail(val))

\* lines 112-114: the loop over contents.items(), up to the first error; self.data[key]
\* is evaluated in the inner loop, so an unknown key raises only if a pair is zipped
RECURSIVE WriteAll(_, _, _)
WriteAll(d, indexes, contents) ==
    IF contents = <<>> THEN [data |-> d, kind |-> "ok"]
    ELSE LET key == Head(contents).key
             val == Head(contents).val
         IN IF indexes = <<>> \/ val = <<>> THEN WriteAll(d, indexes, Tail(contents))
            ELSE IF key \notin DOMAIN d THEN [data |-> d, kind |-> "KeyError"]
            ELSE LET w == WriteColumn(d[key], indexes, val)
                     d2 == [d EXCEPT ![key] = w.col]
                 IN IF w.kind # "ok" THEN [data |-> d2, kind |-> w.kind]
                    ELSE WriteAll(d2, indexes, Tail(contents))

\* mutant of UpdateResult: the lists are validated and nothing is assigned
UpdateWritesNothing(d, indexes, contents) ==
    [data |-> d, kind |-> Validate(contents)]

\* lines 99-116, update(): the data afterwards and the error raised, if any
UpdateResult(d, indexes, contents) ==
    IF Validate(contents) # "ok" THEN [data |-> d, kind |-> Validate(contents)]
    ELSE WriteAll(d, indexes, contents)

\* mutant of ExtendAll: only the first column of the contents is appended
ExtendFirst(d, contents) == [d EXCEPT ![contents[1].key] = @ \o contents[1].val]

\* mutant of ExtendAll: the values are appended last first
ExtendReversed(d, contents) ==
    [k \in DOMAIN d |->
        IF \E i \in 1..Len(contents) : contents[i].key = k
        THEN LET val == contents[CHOOSE i \in 1..Len(contents) : contents[i].key = k].val
             IN d[k] \o [j \in 1..Len(val) |-> val[Len(val) + 1 - j]]
        ELSE d[k]]

\* lines 89-90: every column of the contents is appended to the column of its key
ExtendAll(d, contents) ==
    [k \in DOMAIN d |->
        IF \E i \in 1..Len(contents) : contents[i].key = k
        THEN d[k] \o contents[CHOOSE i \in 1..Len(contents) : contents[i].key = k].val
        ELSE d[k]]

\* mutant of SizeAfterPut: the size is not capped by the capacity
SizeAfterPutUncapped(added_size) == size + added_size

\* line 96: the size after a bounded put
SizeAfterPut(added_size) ==
    IF capacity < size + added_size THEN capacity ELSE size + added_size

(***************************************************************************)
(* SimpleStore: the arguments of the calls of the model.                   *)
(***************************************************************************)
Capacities == {-1} \cup 0..MaxCap
OverwriteTypes == {None, "rolling", "random"}

Column(k, vs) == [i \in 1..Len(vs) |-> vs[i] + KeyOffset(k)]
Item(k, vs) == [key |-> k, val |-> Column(k, vs)]

\* the lists of one key: different values, so that the places of a batch differ
Batches == {vs \in SeqsUpTo(Values, MaxBatch) : Cardinality(SeqRange(vs)) = Len(vs)}

\* contents whose lists have equal lengths and whose keys are those of the store
AlignedContents == {<<Item("a", vs), Item("b", vs)>> : vs \in Batches}

\* the same with the keys in the other order
ReversedContents == {<<Item("b", vs), Item("a", vs)>> : vs \in Batches}

\* contents with a key missing, with a key too many, with none
OtherKeyContents ==
    {<<Item("a", vs)>> : vs \in Batches}
        \cup {<<Item("a", vs), Item("b", vs), Item("c", vs)>> : vs \in Batches}

\* contents whose lists have different lengths
UnequalContents ==
    {<<Item("a", vs), Item("b", Tail(vs))>> : vs \in Batches \ {<<>>}}
        \cup {<<Item("a", Tail(vs)), Item("b", vs)>> : vs \in Batches \ {<<>>}}

\* index lists a caller passes: positions of the store and one past the end
IndexLists == SeqsUpTo(0..MaxCap, MaxBatch)

\* overwrite_indexes: None or a list
OverwriteArgs == {<<>>} \cup {<<ix>> : ix \in IndexLists}

(***************************************************************************)
(* SimpleStore: the actions.                                               *)
(***************************************************************************)
\* __init__, lines 33-41
StoreInit ==
    /\ capacity \in Capacities
    /\ overwrite_type \in OverwriteTypes
    /\ IF ValidOverwriteType(overwrite_type)
       THEN /\ keys = StoreKeys
            /\ data = NewColumns(StoreKeys, capacity)
            /\ ret = Returned(<<>>)
       ELSE \* line 36: no store is built
            /\ keys = <<>>
            /\ data = <<>>
            /\ ret = Raised("ValueError")
    /\ size = 0

\* __init__ returned: there is a store to call
Constructed == keys # <<>>

\* put(), lines 68-97
Put(contents, overwrite_indexes) ==
    /\ Constructed
    /\ UNCHANGED <<keys, capacity, overwrite_type>>
    /\ IF ~KeysAgree(contents)
       THEN ret' = Raised(KeysMisaligned) /\ UNCHANGED <<data, size>>
       ELSE IF Validate(contents) # "ok"
       THEN ret' = Raised(Validate(contents)) /\ UNCHANGED <<data, size>>
       ELSE LET added_size == Len(contents[1].val) IN
            IF capacity = -1
            THEN \* lines 89-92
                 /\ size + added_size <= MaxSize
                 /\ data' = ExtendAll(data, contents)
                 /\ size' = size + added_size
                 /\ ret' = Returned(ListRange(size' - added_size, size'))
            ELSE \* lines 94-97
                 \E g \in GetUpdateIndexes(added_size, overwrite_indexes) :
                    IF g.kind # "ok"
                    THEN ret' = g /\ UNCHANGED <<data, size>>
                    ELSE LET u == UpdateResult(data, g.indexes, contents) IN
                         /\ data' = u.data
                         /\ IF u.kind # "ok"
                            THEN ret' = Raised(u.kind) /\ UNCHANGED size
                            ELSE /\ size' = SizeAfterPut(added_size)
                                 /\ ret' = g

\* update(), lines 99-116
Update(indexes, contents) ==
    /\ Constructed
    /\ UNCHANGED <<keys, capacity, overwrite_type, size>>
    /\ LET u == UpdateResult(data, indexes, contents) IN
        /\ data' = u.data
        /\ ret' = IF u.kind = "ok" THEN Returned(indexes) ELSE Raised(u.kind)

\* mutant of Clear: the columns are reset and the size is left as it is
ClearColumnsOnly ==
    /\ Constructed
    /\ data' = NewColumns(keys, capacity)
    /\ ret' = Returned(<<>>)
    /\ UNCHANGED <<keys, capacity, overwrite_type, size>>

\* clear(), lines 118-121
Clear ==
    /\ Constructed
    /\ data' = NewColumns(keys, capacity)
    /\ size' = 0
    /\ ret' = Returned(<<>>)
    /\ UNCHANGED <<keys, capacity, overwrite_type>>

\* the caller before its first call
NoCall == [op |-> "none", pending |-> FALSE, contents |-> <<>>, indexes |-> <<>>]

TraceIdle ==
    /\ call = NoCall
    /\ putSum = 0
    /\ writeOrder = <<>>
    /\ plainPuts = TRUE

StoreInitial == AMInit /\ StoreInit /\ TraceIdle

StoreNext ==
    \/ \E c \in AlignedContents, o \in OverwriteArgs :
          Put(c, o) /\ UNCHANGED <<amVars, histVars, traceVars>>
    \/ \E c \in ReversedContents \cup OtherKeyContents \cup UnequalContents \cup {<<>>} :
          Put(c, <<>>) /\ UNCHANGED <<amVars, histVars, traceVars>>
    \/ \E ix \in IndexLists, c \in AlignedContents :
          Update(ix, c) /\ UNCHANGED <<amVars, histVars, traceVars>>
    \/ \E c \in OtherKeyContents :
          \E ix \in {x \in IndexLists : Len(x) = Len(c[1].val)} :
             Update(ix, c) /\ UNCHANGED <<amVars, histVars, traceVars>>
    \/ \E c \in UnequalContents \cup {<<>>} :
          Update(<<>>, c) /\ UNCHANGED <<amVars, histVars, traceVars>>
    \/ Clear /\ UNCHANGED <<amVars, histVars, traceVars>>

\* no store while the coordinator runs
StoreIdle ==
    /\ keys = <<>>
    /\ capacity = -1
    /\ overwrite_type = None
    /\ data = <<>>
    /\ size = 0
    /\ ret = Raised("ValueError")

Init == AMInit /\ StoreIdle /\ TraceIdle

Next ==
    \/ \E r \in Indexes, s \in Indexes, req \in RequiredArgs, ds \in BOOLEAN :
          CollectCall(r, s, req, ds) /\ UNCHANGED <<storeVars, traceVars>>
    \/ Begin /\ UNCHANGED <<storeVars, traceVars>>
    \/ Receive /\ UNCHANGED <<storeVars, traceVars>>
    \/ Resume /\ UNCHANGED <<storeVars, traceVars>>
    \/ Abandon /\ UNCHANGED <<storeVars, traceVars>>
    \/ Exit /\ UNCHANGED <<storeVars, traceVars>>
    \/ \E r \in Indexes, s \in Indexes, p \in Profiles :
          Deliver(r, s, p) /\ UNCHANGED <<storeVars, traceVars>>

Spec == Init /\ [][Next]_vars

\* the steps of the generator, which its caller takes by calling next()
DoBegin == Begin /\ UNCHANGED <<storeVars, traceVars>>
DoReceive == Receive /\ UNCHANGED <<storeVars, traceVars>>
DoResume == Resume /\ UNCHANGED <<storeVars, traceVars>>

\* the coordinator with a caller that iterates every generator to its end
LiveNext ==
    \/ \E r \in Indexes, s \in Indexes, req \in RequiredArgs, ds \in BOOLEAN :
          CollectCall(r, s, req, ds) /\ UNCHANGED <<storeVars, traceVars>>
    \/ DoBegin
    \/ DoReceive
    \/ DoResume
    \/ Exit /\ UNCHANGED <<storeVars, traceVars>>
    \/ \E r \in Indexes, s \in Indexes, p \in Profiles :
          Deliver(r, s, p) /\ UNCHANGED <<storeVars, traceVars>>

\* the caller keeps calling next() and receive() returns a message that is in the
\* inbox: a step of the generator that stays possible is taken
LiveSpec ==
    /\ Init
    /\ [][LiveNext]_vars
    /\ WF_vars(DoBegin)
    /\ WF_vars(DoReceive)
    /\ WF_vars(DoResume)

\* the store alone
StoreSpec == StoreInitial /\ [][StoreNext]_vars

(***************************************************************************)
(* SimpleStore with its caller.  A call takes two steps: the caller        *)
(* evaluates the arguments (Invoke), then the method runs from its first   *)
(* line to its return or raise (PutReturns, UpdateReturns).  The arguments *)
(* are forgotten when the method returns.                                  *)
(***************************************************************************)
PutCall(c, o) == [op |-> "put", pending |-> TRUE, contents |-> c, indexes |-> o]
UpdateCall(ix, c) == [op |-> "update", pending |-> TRUE, contents |-> c, indexes |-> <<ix>>]
Finished(op) == [op |-> op, pending |-> FALSE, contents |-> <<>>, indexes |-> <<>>]

\* the put() calls of the model: those of StoreNext
PutCalls ==
    {PutCall(c, o) : c \in AlignedContents, o \in OverwriteArgs}
        \cup {PutCall(c, <<>>) :
                 c \in ReversedContents \cup OtherKeyContents \cup UnequalContents \cup {<<>>}}

\* the update() calls of the model: those of StoreNext
UpdateCalls ==
    {UpdateCall(ix, c) : ix \in IndexLists, c \in AlignedContents}
        \cup UNION {{UpdateCall(ix, c) : ix \in {x \in IndexLists : Len(x) = Len(c[1].val)}} :
                       c \in OtherKeyContents}
        \cup {UpdateCall(<<>>, c) : c \in UnequalContents \cup {<<>>}}

\* the caller is about to call put() or update() with the arguments of c
Invoke(c) ==
    /\ Constructed
    /\ ~call.pending
    /\ call' = c
    /\ UNCHANGED storeVars

\* put() runs with the arguments of the call
PutReturns ==
    /\ call.pending
    /\ call.op = "put"
    /\ Put(call.contents, call.indexes)
    /\ call' = Finished("put")

\* update() runs with the arguments of the call
UpdateReturns ==
    /\ call.pending
    /\ call.op = "update"
    /\ Update(call.indexes[1], call.contents)
    /\ call' = Finished("update")

\* clear() is called and runs
ClearCall ==
    /\ ~call.pending
    /\ Clear
    /\ call' = Finished("clear")

\* lines 86-87: the number of values of the first column of the contents
AddedSize(contents) == Len(contents[1].val)

\* get(), lines 63-66, of the columns d with a list of indexes
GetFrom(d, indexes) ==
    [k \in DOMAIN d |->
        [i \in 1..Len(indexes) |-> d[k][Position(indexes[i], Len(d[k]))]]]

StoreCallNext ==
    \/ \E c \in PutCalls \cup UpdateCalls :
          Invoke(c) /\ UNCHANGED <<amVars, histVars, putSum, writeOrder, plainPuts>>
    \/ PutReturns /\ UNCHANGED <<amVars, histVars, putSum, writeOrder, plainPuts>>
    \/ UpdateReturns /\ UNCHANGED <<amVars, histVars, putSum, writeOrder, plainPuts>>
    \/ ClearCall /\ UNCHANGED <<amVars, histVars, putSum, writeOrder, plainPuts>>

\* the store and its caller, the arguments of every call in the state
StoreCallSpec == StoreInitial /\ [][StoreCallNext]_vars

(***************************************************************************)
(* Sequences of put() calls, with their history: the sum of the sizes put, *)
(* and the order in which the positions were written.                      *)
(***************************************************************************)
\* putSum counts up to one more than a store of the model can hold
PutSumCap == (IF MaxCap > MaxSize THEN MaxCap ELSE MaxSize) + 1

\* the positions (from 0) that a successful put() wrote, in the order of the writes:
\* those of the returned indexes that were zipped with a value
WrittenBy(indexes, added_size) ==
    [i \in 1..(IF Len(indexes) < added_size THEN Len(indexes) ELSE added_size) |->
        Position(indexes[i], IF capacity = -1 THEN size + added_size ELSE capacity) - 1]

\* the order of the writes after the positions of w were written
MoveToEnd(order, w) ==
    LET Kept(p) == p \notin SeqRange(w) IN SelectSeq(order, Kept) \o w

\* the history of a put() that ran
TrackPut ==
    /\ putSum' = IF ret'.kind # "ok" THEN putSum
                 ELSE IF putSum + AddedSize(call.contents) > PutSumCap THEN PutSumCap
                 ELSE putSum + AddedSize(call.contents)
    /\ plainPuts' = (plainPuts /\ call.indexes = <<>>)
    /\ writeOrder' = IF ~plainPuts' THEN <<>>
                     ELSE IF ret'.kind # "ok" THEN writeOrder
                     ELSE MoveToEnd(writeOrder,
                                    WrittenBy(ret'.indexes, AddedSize(call.contents)))

\* the history starts again with clear()
TrackClear ==
    /\ putSum' = 0
    /\ writeOrder' = <<>>
    /\ plainPuts' = TRUE

PutSeqNext ==
    \/ \E c \in PutCalls :
          Invoke(c) /\ UNCHANGED <<amVars, histVars, putSum, writeOrder, plainPuts>>
    \/ PutReturns /\ TrackPut /\ UNCHANGED <<amVars, histVars>>
    \/ ClearCall /\ TrackClear /\ UNCHANGED <<amVars, histVars>>

\* put() and clear() calls only, with the history of the puts
PutSeqSpec == StoreInitial /\ [][PutSeqNext]_vars

(***************************************************************************)
(* Vocabulary of the claims about collect().                               *)
(***************************************************************************)
\* requiredFinishes of the current session: the argument, or the group size
RequiredFinishes == IF required_arg = <<>> THEN NumActors ELSE required_arg[1]

\* this step is a receive() of the current session; it returns Head(inbox)
ReceiveStep == nReceived' = nReceived + 1

\* this step resumes the generator suspended at its yield
ResumeStep == pc = "yield" /\ pc' \in {"recv", "done"}

\* this step is an exit() call
ExitStep == CopiesIn(ExitNotice, sent') = CopiesIn(ExitNotice, sent) + 1

\* this step starts a new session
NewSession == nSessions' = nSessions + 1

\* the message has the requested rollout index and another segment index
Stale(m) == m.rollout = rollout_index /\ m.segment # segment_index

\* the message has another rollout index
Foreign(m) == m.rollout # rollout_index

CountersUnchanged ==
    /\ total_experiences_collected' = total_experiences_collected
    /\ total_env_steps' = total_env_steps

CountersAdd(m) ==
    /\ total_experiences_collected' = total_experiences_collected + m.numExperiences
    /\ total_env_steps' = total_env_steps + m.numSteps

YieldsNothing == yielded' = yielded
Yields(m) == yielded' = Append(yielded, <<m.experiences, m.envEnd>>)

\* the count of matching messages this session received has risen to requiredFinishes
QuorumMet == nMatched > 0 /\ nMatched = RequiredFinishes

\* the MsgTag.ROLLOUT messages broadcast since the last collect() call
RolloutsSent == {m \in BagToSet(sent) : m.tag = "ROLLOUT"}

\* the messages of the inbox that match the request
MatchingInInbox == Cardinality({i \in 1..Len(inbox) : MatchesRequest(inbox[i])})

\* a session is running, of requiredFinishes >= 1, and as many matching messages
\* have been delivered to it: it has received them or they are in the inbox
EnoughDelivered ==
    /\ pc \in {"start", "recv", "yield"}
    /\ RequiredFinishes >= 1
    /\ nMatched + MatchingInInbox >= RequiredFinishes

InboxIds == {inbox[i].experiences : i \in 1..Len(inbox)}

(***************************************************************************)
(* C1: once the number of messages received by a collect() session whose   *)
(* rollout and segment index both match the request has reached            *)
(* requiredFinishes, the generator never goes back to receive(): the       *)
(* session receives nothing more, and whatever is in the inbox, or arrives *)
(* later, stays there.                                                     *)
(***************************************************************************)
C1_StopsAtQuorum ==
    [][QuorumMet =>
          /\ pc' # "recv"
          /\ nReceived' = nReceived \/ NewSession
          /\ IsPrefix(inbox, inbox')]_vars

\* a session ended at its quorum with a message left in the inbox
C1_Witness == QuorumMet /\ pc = "done" /\ inbox # <<>>

(***************************************************************************)
(* C2: a received message with the requested rollout index and another     *)
(* segment index never counts as a finish; it is yielded and its           *)
(* NUM_EXPERIENCES / NUM_STEPS are added to the counters if and only if    *)
(* discard_stale_experiences is false.                                     *)
(***************************************************************************)
C2_StaleMessage ==
    [][/\ (ReceiveStep /\ Stale(Head(inbox))) =>
             /\ num_finishes' = num_finishes
             /\ pc' # "done"
             /\ IF discard_stale_experiences
                THEN YieldsNothing /\ CountersUnchanged /\ pc' = "recv"
                ELSE Yields(Head(inbox)) /\ CountersAdd(Head(inbox)) /\ pc' = "yield"
       /\ (ResumeStep /\ Stale(msg)) =>
             /\ num_finishes' = num_finishes
             /\ pc' = "recv"]_vars

\* a stale message was yielded (discard_stale_experiences false), the generator was
\* resumed, and no finish was counted
C2_Witness ==
    /\ pc = "recv"
    /\ ~discard_stale_experiences
    /\ Len(accepted) = 1
    /\ Stale(accepted[1])
    /\ num_finishes = 0

(***************************************************************************)
(* C3: a received message whose rollout index differs from the requested   *)
(* one is dropped: nothing is yielded, no finish is counted, the counters  *)
(* stay, whatever its segment index and discard_stale_experiences.         *)
(***************************************************************************)
C3_ForeignRolloutDropped ==
    [][(ReceiveStep /\ Foreign(Head(inbox))) =>
          /\ YieldsNothing
          /\ CountersUnchanged
          /\ num_finishes' = num_finishes
          /\ pc' = "recv"]_vars

\* with discard_stale_experiences false every message of the roll-out is yielded:
\* a session that has received messages and yielded nothing has dropped foreign ones
C3_Witness ==
    /\ pc = "recv"
    /\ ~discard_stale_experiences
    /\ nReceived >= 1
    /\ yielded = <<>>
    /\ num_finishes = 0

(***************************************************************************)
(* C4: a received message whose rollout and segment index both match is    *)
(* accepted: the counters grow by exactly its NUM_EXPERIENCES and          *)
(* NUM_STEPS, (EXPERIENCES, ENV_END) is yielded once, and on resumption    *)
(* one finish is counted and nothing is yielded again.                     *)
(***************************************************************************)
C4_MatchingAccepted ==
    [][/\ (ReceiveStep /\ MatchesRequest(Head(inbox))) =>
             /\ CountersAdd(Head(inbox))
             /\ Yields(Head(inbox))
             /\ num_finishes' = num_finishes
             /\ pc' = "yield"
       /\ (ResumeStep /\ MatchesRequest(msg)) =>
             /\ num_finishes' = num_finishes + 1
             /\ YieldsNothing
             /\ CountersUnchanged]_vars

\* a matching message was yielded and then counted
C4_Witness ==
    /\ pc = "recv"
    /\ Len(accepted) = 1
    /\ MatchesRequest(accepted[1])
    /\ num_finishes = 1

(***************************************************************************)
(* C5: with discard_stale_experiences true, a terminated session of        *)
(* requiredFinishes = R (the group size when omitted) has yielded exactly  *)
(* R batches, those of the R matching messages it received, and the two    *)
(* counters have grown by the sums of their NUM_EXPERIENCES and NUM_STEPS. *)
(***************************************************************************)
C5_TerminatedSession ==
    (pc = "done" /\ discard_stale_experiences) =>
        /\ Len(yielded) = RequiredFinishes
        /\ nMatched = RequiredFinishes
        /\ Len(accepted) = Len(yielded)
        /\ \A i \in 1..Len(accepted) :
              /\ MatchesRequest(accepted[i])
              /\ yielded[i] = <<accepted[i].experiences, accepted[i].envEnd>>
        /\ total_experiences_collected = exp0 + SumOver(accepted, "numExperiences")
        /\ total_env_steps = steps0 + SumOver(accepted, "numSteps")

\* a terminated session that also received messages that do not match
C5_Witness ==
    /\ pc = "done"
    /\ discard_stale_experiences
    /\ nReceived > nMatched
    /\ Len(yielded) >= 1

(***************************************************************************)
(* C6: the two counters never decrease and are never reset; they change    *)
(* only in a step that accepts a result message; exit() leaves them as     *)
(* they are and receives nothing.                                          *)
(***************************************************************************)
C6_CountersMonotone ==
    [][/\ total_experiences_collected' >= total_experiences_collected
       /\ total_env_steps' >= total_env_steps
       /\ ~CountersUnchanged => (ReceiveStep /\ Len(yielded') = Len(yielded) + 1)
       /\ ExitStep => (CountersUnchanged /\ nReceived' = nReceived /\ inbox' = inbox)]_vars

\* a second session that added to what the first had collected, with an exit() call
C6_Witness ==
    /\ nSessions = 2
    /\ exp0 > 0
    /\ total_experiences_collected > exp0
    /\ CopiesIn(ExitNotice, sent) >= 1

(***************************************************************************)
(* C7: collect() has no timeout: a session that has received fewer than    *)
(* requiredFinishes messages matching both indexes has not terminated,     *)
(* however many other messages it received.                                *)
(***************************************************************************)
C7_NoTimeout == nMatched < RequiredFinishes => pc # "done"

\* a session that has received two messages, neither a finish, and waits for more
C7_Witness ==
    /\ pc = "recv"
    /\ nReceived >= 2
    /\ nMatched = 0
    /\ inbox = <<>>

(***************************************************************************)
(* C8: a message that an ended round left unread and that a later          *)
(* collect() call of another (rollout, segment) pair receives.             *)
(***************************************************************************)
\* the message the step receives was left unread by an earlier round, whose pair
\* it carries, and the current request is for another pair
LeftoverReceived ==
    /\ ReceiveStep
    /\ Head(inbox).experiences \in leftover
    /\ ~MatchesRequest(Head(inbox))

\* C8 as stated: such a message is never yielded and never changes the counters
C8_LeftoverFiltered ==
    [][LeftoverReceived => (YieldsNothing /\ CountersUnchanged)]_vars

\* C8 as amended: it is dropped when its rollout index differs from the requested
\* one or discard_stale_experiences is true; with the requested rollout index and
\* discard_stale_experiences false it is yielded and counted in the counters
C8_LeftoverFilteredUnlessStaleKept ==
    [][LeftoverReceived =>
          IF Foreign(Head(inbox)) \/ discard_stale_experiences
          THEN YieldsNothing /\ CountersUnchanged /\ num_finishes' = num_finishes
          ELSE Yields(Head(inbox)) /\ CountersAdd(Head(inbox))]_vars

\* a later session of discard_stale_experiences false has received a left-over
\* message and yielded nothing
C8_Witness ==
    /\ nSessions = 2
    /\ pc = "recv"
    /\ ~discard_stale_experiences
    /\ nReceived >= 1
    /\ yielded = <<>>
    /\ leftover \ InboxIds # {}

(***************************************************************************)
(* C9: when an accepted message has ENV_END true its TOTAL_REWARD is       *)
(* recorded in total_reward; when ENV_END is false total_reward is left    *)
(* as it is.                                                               *)
(***************************************************************************)
C9_RewardRecorded ==
    [][(ReceiveStep /\ Len(yielded') = Len(yielded) + 1) =>
          IF Head(inbox).envEnd
          THEN total_reward' # total_reward
          ELSE total_reward' = total_reward]_vars

(***************************************************************************)
(* C10: after any sequence of put(), update() and clear() calls, failed    *)
(* ones included, the store has one column per key and all columns have    *)
(* the same length: size when the capacity is -1, the capacity otherwise.  *)
(***************************************************************************)
C10_ColumnLengths ==
    Constructed =>
        /\ DOMAIN data = SeqRange(keys)
        /\ \A k \in DOMAIN data :
              Len(data[k]) = IF capacity = -1 THEN size ELSE capacity

\* an unbounded store grown by put() on which a call then failed
C10_Witness ==
    /\ capacity = -1
    /\ size >= 2
    /\ ret.kind \in {"IndexError", "KeyError", "StoreMisalignment"}

(***************************************************************************)
(* C11: after the successful put() calls since __init__ or the last        *)
(* clear(), of sizes s1..sn, the size of an unbounded store is s1+...+sn   *)
(* and the size of a bounded store is min(capacity, s1+...+sn), so that    *)
(* 0 <= size <= capacity.  Failed put() calls in between count for         *)
(* nothing.                                                                *)
(***************************************************************************)
C11_SizeIsSumOfPuts ==
    Constructed =>
        IF capacity = -1
        THEN size = putSum
        ELSE /\ size = (IF putSum < capacity THEN putSum ELSE capacity)
             /\ 0 <= size
             /\ size <= capacity

\* a bounded store after successful puts of more values than it holds
C11_Witness ==
    /\ capacity = 2
    /\ putSum > capacity
    /\ size = capacity
    /\ call = Finished("put")
    /\ ret.kind = "ok"

(***************************************************************************)
(* Vocabulary of the claims about one call of the store.                   *)
(***************************************************************************)
\* this step is put() running
PutStep == call.pending /\ call.op = "put" /\ call' = Finished("put")

\* this step is update() running
UpdateStep == call.pending /\ call.op = "update" /\ call' = Finished("update")

\* this step is clear() running
ClearStep == ~call.pending /\ call' = Finished("clear")

\* this step is put() running without overwrite_indexes
PlainPutStep == PutStep /\ call.indexes = <<>>

\* the contents have the keys of the store and lists of equal lengths
WellFormed(contents) == contents \in AlignedContents \cup ReversedContents

\* the keys of the contents
KeySet(contents) == {contents[i].key : i \in 1..Len(contents)}

\* the lists of the contents have different lengths
UnequalLengths(contents) ==
    \E i \in 1..Len(contents) : Len(contents[i].val) # Len(contents[1].val)

\* the length of every column of the store
ColumnLength == IF capacity = -1 THEN size ELSE capacity

\* every index of the list is a position of the columns
InRange(indexes) ==
    \A i \in 1..Len(indexes) : 0 <= indexes[i] /\ indexes[i] < ColumnLength

\* the number of (index, value) pairs that zip(indexes, val) gives
ZipLen(indexes, val) == IF Len(indexes) < Len(val) THEN Len(indexes) ELSE Len(val)

\* the last of the first n places of the list that hold the index of place j
LastOf(indexes, j, n) ==
    CHOOSE l \in j..n :
        /\ indexes[l] = indexes[j]
        /\ \A m \in (l + 1)..n : indexes[m] # indexes[j]

\* numOverwrites of the put() that is running
NumOverwrites == size + AddedSize(call.contents) - capacity

\* the positions (from 0) this put() has written
Written == SeqRange(WrittenBy(ret'.indexes, AddedSize(call.contents)))

\* those of them that held an entry before
Evicted == {p \in Written : p < size}

\* the positions of the n entries written earliest among those stored
Earliest(n) == {writeOrder[i] : i \in 1..n}

(***************************************************************************)
(* C12: in a bounded store with the rolling policy, over a sequence of     *)
(* put() calls without overwrite_indexes, each put that must evict evicts  *)
(* the entries written earliest among those stored (FIFO): the start of    *)
(* the overwriting advances with the writes and does not restart at the    *)
(* same slot.                                                              *)
(***************************************************************************)
C12_RollingIsFifo ==
    [][(/\ PlainPutStep
        /\ plainPuts
        /\ capacity # -1
        /\ overwrite_type = "rolling"
        /\ ret'.kind = "ok"
        /\ NumOverwrites > 0) => Evicted = Earliest(NumOverwrites)]_vars

(***************************************************************************)
(* C13: in a bounded rolling store of capacity C that successive puts      *)
(* filled to exactly C, a further put of k values (1 <= k <= C) without    *)
(* overwrite_indexes returns [0..k-1], writes its values to the positions  *)
(* 0..k-1, which hold the k entries written earliest, leaves the other     *)
(* C-k entries as they are, and leaves size at C.                          *)
(***************************************************************************)
C13_RollingAfterExactFill ==
    [][(/\ PlainPutStep
        /\ plainPuts
        /\ overwrite_type = "rolling"
        /\ capacity >= 1
        /\ putSum = capacity
        /\ WellFormed(call.contents)
        /\ AddedSize(call.contents) >= 1
        /\ AddedSize(call.contents) <= capacity) =>
            LET k == AddedSize(call.contents) IN
            /\ ret' = Returned(ListRange(0, k))
            /\ Earliest(k) = 0..(k - 1)
            /\ Evicted = Earliest(k)
            /\ \A i \in 1..Len(call.contents) :
                  \A j \in 1..capacity :
                     data'[call.contents[i].key][j] =
                        IF j <= k THEN call.contents[i].val[j]
                        ELSE data[call.contents[i].key][j]
            /\ size' = capacity]_vars

\* a store of capacity 2 filled by two puts of one value, after a third put of one
C13_Witness ==
    /\ overwrite_type = "rolling"
    /\ capacity = 2
    /\ plainPuts
    /\ putSum = 3
    /\ writeOrder = <<1, 0>>
    /\ call = Finished("put")
    /\ ret = Returned(<<0>>)

(***************************************************************************)
(* C14: every successful put() on a bounded store, with or without         *)
(* overwrite_indexes, returns one index per supplied value, in the order   *)
(* of the values, and afterwards the i-th value of each column is stored   *)
(* at the i-th returned index; with overwrite_indexes the returned list is *)
(* range(size, capacity) followed by the supplied indexes.                 *)
(***************************************************************************)
C14_PutReturnsWhereValuesAre ==
    [][(PutStep /\ capacity # -1 /\ ret'.kind = "ok") =>
          LET added == AddedSize(call.contents) IN
          /\ Len(ret'.indexes) = added
          /\ \A i \in 1..Len(call.contents) :
                \A j \in 1..added :
                   GetFrom(data', ret'.indexes)[call.contents[i].key][j] =
                       call.contents[i].val[j]
          /\ call.indexes # <<>> =>
                ret'.indexes = ListRange(size, capacity) \o call.indexes[1]]_vars

(***************************************************************************)
(* C15: every successful put() on an unbounded store returns the range     *)
(* [size, size + addedSize) of the size before it, get() at the returned   *)
(* indexes gives, for each column, the values passed, in order, and the    *)
(* values at the indexes earlier puts returned (those below the size) are  *)
(* left as they are.                                                       *)
(***************************************************************************)
C15_UnboundedPutRoundTrip ==
    [][(PutStep /\ capacity = -1 /\ ret'.kind = "ok") =>
          LET added == AddedSize(call.contents) IN
          /\ ret'.indexes = ListRange(size, size + added)
          /\ \A i \in 1..Len(call.contents) :
                GetFrom(data', ret'.indexes)[call.contents[i].key] = call.contents[i].val
          /\ \A k \in DOMAIN data :
                \A j \in 1..size : data'[k][j] = data[k][j]]_vars

\* an unbounded store of one entry after a put of one more
C15_Witness ==
    /\ capacity = -1
    /\ size = 2
    /\ call = Finished("put")
    /\ ret = Returned(<<1>>)

(***************************************************************************)
(* C16: in a bounded store with the random policy, a put() without         *)
(* overwrite_indexes of addedSize <= capacity values that needs            *)
(* overwriting succeeds and writes to range(size, capacity) and to         *)
(* size + addedSize - capacity overwritten indexes, all different and all  *)
(* below the size before the write, whatever the random source chooses.    *)
(***************************************************************************)
C16_RandomOverwrite ==
    [][(/\ PlainPutStep
        /\ capacity # -1
        /\ overwrite_type = "random"
        /\ WellFormed(call.contents)
        /\ AddedSize(call.contents) <= capacity
        /\ NumOverwrites > 0) =>
            LET tail == ListRange(size, capacity) IN
            /\ ret'.kind = "ok"
            /\ Len(ret'.indexes) = Len(tail) + NumOverwrites
            /\ SubSeq(ret'.indexes, 1, Len(tail)) = tail
            /\ LET overwritten == SubSeq(ret'.indexes, Len(tail) + 1, Len(ret'.indexes))
               IN /\ Cardinality(SeqRange(overwritten)) = NumOverwrites
                  /\ SeqRange(overwritten) \subseteq 0..(size - 1)
            /\ Written = SeqRange(ret'.indexes)]_vars

\* a random store of capacity 2 holding one entry, after a put of two values that
\* overwrote it
C16_Witness ==
    /\ overwrite_type = "random"
    /\ capacity = 2
    /\ plainPuts
    /\ putSum = 3
    /\ size = 2
    /\ call = Finished("put")
    /\ ret = Returned(<<1, 0>>)

(***************************************************************************)
(* C17: a put() call that fails, whatever the error, leaves every column   *)
(* and the size as they were before the call.                              *)
(***************************************************************************)
C17_FailedPutWritesNothing ==
    [][(PutStep /\ ret'.kind # "ok") => (data' = data /\ size' = size)]_vars

(***************************************************************************)
(* C18: in every state of a bounded store reachable by put(), update() and *)
(* clear() calls, every slot at a position >= size, in every column, holds *)
(* the empty marker: only the first size slots hold written values.        *)
(***************************************************************************)
C18_TailIsEmpty ==
    (Constructed /\ capacity # -1) =>
        \A k \in DOMAIN data :
           \A p \in 1..Len(data[k]) : p > size => data[k][p] = Empty

(***************************************************************************)
(* C19: put() on a store that holds entries, with contents whose key set   *)
(* is not the key set of the store (a key missing, or a key too many),     *)
(* raises the StoreMisalignment of the key check and writes nothing.       *)
(***************************************************************************)
C19_KeyMismatchRejected ==
    [][(PutStep /\ size > 0 /\ KeySet(call.contents) # SeqRange(keys)) =>
          /\ ret' = Raised(KeysMisaligned)
          /\ data' = data
          /\ size' = size]_vars

\* a store that holds two entries has rejected a put() for its keys
C19_Witness ==
    /\ size = 2
    /\ call = Finished("put")
    /\ ret = Raised(KeysMisaligned)

(***************************************************************************)
(* C20: put() (with the keys of the store) and update() called with lists  *)
(* of unequal lengths raise the StoreMisalignment of validate() and write  *)
(* nothing, whatever the capacity, the overwrite type and the size.        *)
(***************************************************************************)
C20_UnequalLengthsRejected ==
    [][(/\ UpdateStep \/ (PutStep /\ KeySet(call.contents) = SeqRange(keys))
        /\ UnequalLengths(call.contents)) =>
            /\ ret' = Raised("StoreMisalignment")
            /\ data' = data
            /\ size' = size]_vars

\* a full bounded store has rejected an update() for the lengths of its lists
C20_Witness ==
    /\ capacity = 2
    /\ size = 2
    /\ call = Finished("update")
    /\ ret = Raised("StoreMisalignment")

(***************************************************************************)
(* C21: update(indexes, contents) with in-range indexes.                   *)
(***************************************************************************)
\* C21 as stated, for contents that name columns of the store with lists of equal
\* lengths: the call leaves size, keys, capacity and overwrite type as they
\* are, leaves every slot whose position is not in indexes and every column not
\* named in the contents as they are, sets position indexes[i] of each supplied
\* column to the i-th supplied value, and returns indexes
C21_UpdateFrame ==
    [][(/\ UpdateStep
        /\ InRange(call.indexes[1])
        /\ call.contents # <<>>
        /\ KeySet(call.contents) \subseteq SeqRange(keys)
        /\ ~UnequalLengths(call.contents)) =>
          LET indexes == call.indexes[1] IN
          /\ UNCHANGED <<size, keys, capacity, overwrite_type>>
          /\ ret' = Returned(indexes)
          /\ \A k \in DOMAIN data \ KeySet(call.contents) : data'[k] = data[k]
          /\ \A i \in 1..Len(call.contents) :
                LET key == call.contents[i].key
                    val == call.contents[i].val
                IN /\ key \in DOMAIN data
                   /\ \A p \in 1..Len(data[key]) :
                         (p - 1) \notin SeqRange(indexes) => data'[key][p] = data[key][p]
                   /\ \A j \in 1..ZipLen(indexes, val) :
                         data'[key][indexes[j] + 1] = val[j]]_vars

\* C21 as amended: with contents whose columns are columns of the store and whose
\* lists have equal lengths, the call leaves size, keys, capacity and overwrite type
\* as they are and returns indexes, leaves the columns not named and the slots at
\* positions that were not zipped with a value as they are, and sets each zipped
\* position to the value of the last place of indexes that names it (the i-th value
\* when the indexes differ); with empty contents it raises IndexError and writes
\* nothing
C21_UpdateFrameLastWins ==
    [][(/\ UpdateStep
        /\ InRange(call.indexes[1])
        /\ KeySet(call.contents) \subseteq SeqRange(keys)
        /\ ~UnequalLengths(call.contents)) =>
          LET indexes == call.indexes[1] IN
          /\ UNCHANGED <<size, keys, capacity, overwrite_type>>
          /\ IF call.contents = <<>>
             THEN ret' = Raised("IndexError") /\ data' = data
             ELSE /\ ret' = Returned(indexes)
                  /\ \A k \in DOMAIN data \ KeySet(call.contents) : data'[k] = data[k]
                  /\ \A i \in 1..Len(call.contents) :
                        LET key == call.contents[i].key
                            val == call.contents[i].val
                            n == ZipLen(indexes, val)
                        IN /\ \A p \in 1..Len(data[key]) :
                                 (p - 1) \notin {indexes[j] : j \in 1..n} =>
                                     data'[key][p] = data[key][p]
                           /\ \A j \in 1..n :
                                 data'[key][indexes[j] + 1] = val[LastOf(indexes, j, n)]]_vars

\* an update() of position 0, named twice, of an empty store of capacity 2: the
\* second value is there
C21_Witness ==
    /\ capacity = 2
    /\ size = 0
    /\ call = Finished("update")
    /\ ret = Returned(<<0, 0>>)
    /\ data["a"] = <<2, Empty>>
    /\ data["b"] = <<12, Empty>>

(***************************************************************************)
(* C22: clear(), in whatever state it is called, sets the size to 0 and    *)
(* every column to the empty list (capacity -1) or to capacity empty       *)
(* markers, leaves keys, capacity and overwrite type as they are, and      *)
(* leaves the store in the state __init__ gives for these keys, capacity   *)
(* and overwrite type, so that every later call does what it does on a     *)
(* store just built.                                                       *)
(***************************************************************************)
C22_ClearResets ==
    [][ClearStep =>
          /\ size' = 0
          /\ DOMAIN data' = SeqRange(keys)
          /\ \A k \in DOMAIN data' :
                data'[k] = IF capacity = -1 THEN <<>> ELSE [i \in 1..capacity |-> Empty]
          /\ UNCHANGED <<keys, capacity, overwrite_type>>
          /\ StoreInit']_vars

\* clear() has run on a store of capacity 2
C22_Witness ==
    /\ call = Finished("clear")
    /\ capacity = 2
    /\ size = 0
    /\ data = [k \in {"a", "b"} |-> <<Empty, Empty>>]

(***************************************************************************)
(* C23: an overwrite type is required only when the capacity is >= 0:      *)
(* __init__ with capacity -1 and no overwrite type (None) succeeds and     *)
(* gives an empty store of size 0, and __init__ with a capacity >= 0 and   *)
(* an overwrite type other than "rolling" and "random" raises.             *)
(***************************************************************************)
C23_PolicyRequiredWhenBounded ==
    /\ (capacity = -1 /\ overwrite_type = None) =>
          /\ Constructed
          /\ size = 0
          /\ data = [k \in SeqRange(StoreKeys) |-> <<>>]
    /\ (capacity >= 0 /\ overwrite_type \notin {"rolling", "random"}) =>
          /\ ~Constructed
          /\ ret = Raised("ValueError")

(***************************************************************************)
(* C24: a collect() session broadcasts its roll-out request exactly once,  *)
(* before its first receive: a session that has received a message, or is *)
(* at its receive, at its yield or at its end, has broadcast one           *)
(* MsgTag.ROLLOUT message, with the rollout and segment index of the call, *)
(* and no other.                                                           *)
(***************************************************************************)
C24_BroadcastOnce ==
    (pc \in {"recv", "yield", "done"} \/ nReceived > 0) =>
        /\ Cardinality(RolloutsSent) = 1
        /\ \A m \in RolloutsSent :
              /\ CopiesIn(m, sent) = 1
              /\ m.rollout = rollout_index
              /\ m.segment = segment_index

\* a session that has dropped a message, yielded one and ended
C24_Witness ==
    /\ pc = "done"
    /\ nReceived = 2
    /\ Len(yielded) = 1
    /\ Cardinality(RolloutsSent) = 1

(***************************************************************************)
(* C25: when requiredFinishes (>= 1) messages that match the rollout and   *)
(* the segment index of a running session have been delivered, and the     *)
(* caller keeps pulling, the session terminates, whatever other messages   *)
(* are in between and in whatever order they came.                         *)
(***************************************************************************)
C25_Terminates == EnoughDelivered ~> (pc = "done")

\* a session of requiredFinishes 1 has ended after a message that does not match
\* and one that does
C25_Witness ==
    /\ pc = "done"
    /\ required_arg = <<1>>
    /\ nReceived = 2
    /\ nMatched = 1

(***************************************************************************)
(* C26: for every requiredFinishes >= 0, the number of messages a session  *)
(* has counted towards the quorum never exceeds requiredFinishes; with     *)
(* requiredFinishes = 0 the session ends without receiving or counting a   *)
(* message.                                                                *)
(***************************************************************************)
C26_QuorumNeverExceeded ==
    pc \in {"recv", "yield", "done"} =>
        /\ num_finishes <= RequiredFinishes
        /\ RequiredFinishes = 0 => (pc = "done" /\ nReceived = 0)

(***************************************************************************)
(* C27: the indexes a successful put() without overwrite_indexes returns   *)
(* on a bounded store, under either overwrite type and from any size.      *)
(***************************************************************************)
\* C27 as stated: every returned index is a position in [0, capacity), and the
\* returned indexes of one put differ from one another
C27_IndexesArePositions ==
    [][(PlainPutStep /\ capacity # -1 /\ ret'.kind = "ok") =>
          /\ \A i \in 1..Len(ret'.indexes) :
                0 <= ret'.indexes[i] /\ ret'.indexes[i] < capacity
          /\ \A i, j \in 1..Len(ret'.indexes) :
                i # j => ret'.indexes[i] # ret'.indexes[j]]_vars

\* C27 as amended: every returned index i has -capacity <= i < capacity and names,
\* a negative one counting from the end of the list, a position in [0, capacity);
\* the returned indexes of one put differ from one another and so do the positions
\* they name; an index is negative exactly when the overwrite type is rolling and
\* the put, from a size below the capacity, fills the store or goes beyond
C27_IndexesNamePositions ==
    [][(PlainPutStep /\ capacity # -1 /\ ret'.kind = "ok") =>
          LET ix == ret'.indexes
              pos == [i \in 1..Len(ix) |-> IF ix[i] < 0 THEN capacity + ix[i] ELSE ix[i]]
          IN /\ \A i \in 1..Len(ix) :
                   /\ -capacity <= ix[i]
                   /\ ix[i] < capacity
                   /\ 0 <= pos[i]
                   /\ pos[i] < capacity
             /\ \A i, j \in 1..Len(ix) :
                   i # j => (ix[i] # ix[j] /\ pos[i] # pos[j])
             /\ (\E i \in 1..Len(ix) : ix[i] < 0) <=>
                   /\ overwrite_type = "rolling"
                   /\ size < capacity
                   /\ NumOverwrites >= 0]_vars

\* a rolling store of capacity 2 that held one entry, after a put of two values
C27_Witness ==
    /\ overwrite_type = "rolling"
    /\ capacity = 2
    /\ plainPuts
    /\ size = 2
    /\ call = Finished("put")
    /\ ret = Returned(<<-1, 0>>)

====
